---- MODULE Spec2Model ----
(***************************************************************************)
(* A model of convert_issues.py: the hg -> git commit index (BbToGh), the  *)
(* link rewriting rules of BbToGh.convert_all, the memoized user lookup    *)
(* and insert_missing_issue.                                               *)
(*                                                                         *)
(* Texts are TLA+ strings and the rules work on their characters, as the   *)
(* regular expressions and str.replace of the source do.                   *)
(***************************************************************************)
EXTENDS Integers, Sequences, FiniteSets, TLC

VARIABLES
    hg_logs,               \* input: json 'messages' of the hg log
    git_logs,              \* input: json 'messages' of the git log
    corpus,                \* input: the issue contents and comment bodies
    issues_in,             \* input: the issues, as read
    pc,                    \* where the program is
    idx,                   \* index of the running for loop
    key_to_hg,             \* BbToGh.__init__: key_to_hg
    hg_to_git,             \* self.hg_to_git
    hg_dates,              \* self.hg_dates
    hg_revnum_to_hg_node,  \* self.hg_revnum_to_hg_node
    sorted_nodes,          \* self.sorted_nodes
    ref,                   \* argument of the last direct hgnode_to_githash call
    result,                \* its outcome
    text,                  \* convert_all: the text it was called on
    content,               \* convert_all: content
    prev,                  \* content before the rule applied last
    captures,              \* convert_bb_user_link: re.findall(pattern, content)
    name,                  \* convert_bb_user_link: name
    cache,                 \* memoize.cache of get_bb_username
    lookups,               \* requests.get calls made, per user
    issues,                \* insert_missing_issue: issues
    frange                 \* insert_missing_issue: len(issues) when range() was built

vars == <<hg_logs, git_logs, corpus, issues_in, pc, idx, key_to_hg, hg_to_git,
          hg_dates, hg_revnum_to_hg_node, sorted_nodes, ref, result, text, content, prev,
          captures, name, cache, lookups, issues, frange>>

indexVars == <<key_to_hg, hg_to_git, hg_dates, hg_revnum_to_hg_node, sorted_nodes>>
inputVars == <<hg_logs, git_logs, corpus, issues_in>>
callVars == <<ref, result>>
textVars == <<text, content, prev, captures, name>>
userVars == <<cache, lookups>>
fillVars == <<issues, frange>>

----------------------------------------------------------------------------
(* Python values.  v is what '%s' % value prints.                          *)

PyNone == [t |-> "NoneType", v |-> "None"]
PyFalse == [t |-> "bool", v |-> "False"]
PyStr(s) == [t |-> "str", v |-> s]

----------------------------------------------------------------------------
(* Characters and strings.                                                 *)

Ch(s, i) == SubSeq(s, i, i)

Digits == {"0", "1", "2", "3", "4", "5", "6", "7", "8", "9"}
HexChars == Digits \cup {"a", "b", "c", "d", "e", "f"}
Lower == {"a", "b", "c", "d", "e", "f", "g", "h", "i", "j", "k", "l", "m",
          "n", "o", "p", "q", "r", "s", "t", "u", "v", "w", "x", "y", "z"}
Upper == {"A", "B", "C", "D", "E", "F", "G", "H", "I", "J", "K", "L", "M",
          "N", "O", "P", "Q", "R", "S", "T", "U", "V", "W", "X", "Y", "Z"}
Alpha == Lower \cup Upper
AlNum == Alpha \cup Digits
WordChars == AlNum \cup {"_"}
Whitespace == {" ", "\t", "\n", "\r", "\f"}

\* The characters of the model in ASCII order (str comparison is by code point).
AsciiOrder == "\t\n\f\r !\"#()+,-./0123456789:<=>?@ABCDEFGHIJKLMNOPQRSTUVWXYZ[\\]_abcdefghijklmnopqrstuvwxyz"

OrdTable == [c \in {Ch(AsciiOrder, k) : k \in 1..Len(AsciiOrder)} |->
                CHOOSE k \in 1..Len(AsciiOrder) : Ch(AsciiOrder, k) = c]

\* Where character c stands in the order
Ord(c) == OrdTable[c]

RECURSIVE StrLessFrom(_, _, _)
StrLessFrom(a, b, k) ==
    IF k > Len(b) THEN FALSE
    ELSE IF k > Len(a) THEN TRUE
    ELSE IF Ch(a, k) = Ch(b, k) THEN StrLessFrom(a, b, k + 1)
    ELSE Ord(Ch(a, k)) < Ord(Ch(b, k))

\* a < b on Python strings
StrLess(a, b) == StrLessFrom(a, b, 1)

\* a.startswith(b)
startswith(a, b) == Len(b) <= Len(a) /\ SubSeq(a, 1, Len(b)) = b

\* a[i:].startswith(b), i counted from 1
StartsAt(a, i, b) == i + Len(b) - 1 <= Len(a) /\ SubSeq(a, i, i + Len(b) - 1) = b

RECURSIVE lstrip(_)
lstrip(s) == IF Len(s) > 0 /\ Ch(s, 1) \in Whitespace THEN lstrip(Tail(s)) ELSE s

RECURSIVE rstrip(_)
rstrip(s) ==
    IF Len(s) > 0 /\ Ch(s, Len(s)) \in Whitespace
    THEN rstrip(SubSeq(s, 1, Len(s) - 1)) ELSE s

\* str.strip()
strip(s) == rstrip(lstrip(s))

\* str.isdigit()
isdigit(s) == Len(s) > 0 /\ \A k \in 1..Len(s) : Ch(s, k) \in Digits

DigitVal(c) == Ord(c) - Ord("0")

RECURSIVE int(_)
\* int(s) for a string of digits
int(s) == IF Len(s) = 0 THEN 0
          ELSE 10 * int(SubSeq(s, 1, Len(s) - 1)) + DigitVal(Ch(s, Len(s)))

\* The least number of a non-empty set
MinOf(P) == CHOOSE k \in P : \A k2 \in P : k <= k2

\* First position >= i of s holding a character of set cs, Len(s)+1 if none.
FindChar(s, i, cs) ==
    LET P == {k \in i..Len(s) : Ch(s, k) \in cs}
    IN IF P = {} THEN Len(s) + 1 ELSE MinOf(P)

\* First position >= i of s holding a character outside cs, Len(s)+1 if none:
\* where a greedy run of cs that starts at i ends.
RunEnd(s, i, cs) ==
    LET P == {k \in i..Len(s) : Ch(s, k) \notin cs}
    IN IF P = {} THEN Len(s) + 1 ELSE MinOf(P)

\* As RunEnd, for a run of characters that are NOT in cs.
RunEndNot(s, i, cs) == FindChar(s, i, cs)

\* s.find(old, i): the first place >= i where old stands in s, 0 if none
find(s, i, old) ==
    LET P == {k \in i..(Len(s) - Len(old) + 1) : StartsAt(s, k, old)}
    IN IF P = {} THEN 0 ELSE MinOf(P)

RECURSIVE ReplaceFrom(_, _, _, _)
ReplaceFrom(s, i, old, new) ==
    LET k == find(s, i, old)
    IN IF k = 0 THEN SubSeq(s, i, Len(s))
       ELSE SubSeq(s, i, k - 1) \o new \o ReplaceFrom(s, k + Len(old), old, new)

\* s.replace(old, new) for a non-empty old: every occurrence, left to right,
\* no two overlapping
replace(s, old, new) == ReplaceFrom(s, 1, old, new)

\* dateutil.parser.parse on 'YYYY-MM-DD hh:mm:ss' and 'YYYY-MM-DDThh:mm:ss':
\* the datetime, as <<year, month, day, hour, minute, second>>.
parse(s) == << int(SubSeq(s, 1, 4)), int(SubSeq(s, 6, 7)), int(SubSeq(s, 9, 10)),
               int(SubSeq(s, 12, 13)), int(SubSeq(s, 15, 16)), int(SubSeq(s, 18, 19)) >>

----------------------------------------------------------------------------
(* BbToGh.__init__                                                         *)

\* bb_url and gh_url as main() builds them, for the repository u/r.
bb_url == rstrip("https://bitbucket.org/u/r")
gh_url == rstrip("https://github.com/u/r")

\* dict[key] = value
DictSet(d, k, val) == [x \in DOMAIN d \cup {k} |-> IF x = k THEN val ELSE d[x]]

\* (date, desc.strip()) of a log record
Key(log) == <<parse(log.date), strip(log.desc)>>

\* One pass of "for hg_log in hg_logs" (lines 84-93).
HgLogStep ==
    /\ pc = "hg_logs"
    /\ idx <= Len(hg_logs)
    /\ LET hg_log == hg_logs[idx]
           node == strip(hg_log.node)
           date == parse(hg_log.date)
           key == <<date, strip(hg_log.desc)>>
           old == IF key \in DOMAIN key_to_hg THEN key_to_hg[key] ELSE <<>>
       IN /\ hg_dates' = DictSet(hg_dates, node, date)
          /\ key_to_hg' = DictSet(key_to_hg, key, Append(old, node))
          /\ hg_to_git' = DictSet(hg_to_git, node, PyNone)
          /\ hg_revnum_to_hg_node' = DictSet(hg_revnum_to_hg_node, hg_log.revnum, node)
    /\ idx' = idx + 1
    /\ UNCHANGED <<pc, sorted_nodes>>
    /\ UNCHANGED <<inputVars, callVars, textVars, userVars, fillVars>>

\* The hg loop is over: on to "for git_log in git_logs".
HgLogEnd ==
    /\ pc = "hg_logs"
    /\ idx > Len(hg_logs)
    /\ pc' = "git_logs"
    /\ idx' = 1
    /\ UNCHANGED <<indexVars, inputVars, callVars, textVars, userVars, fillVars>>

\* A loop that stops after the first node of the key.
SetAll_first_only(d, nodes, h) ==
    IF nodes = <<>> THEN d ELSE DictSet(d, Head(nodes), h)

\* self.hg_to_git after "for node in key_to_hg[key]: self.hg_to_git[node] = h"
RECURSIVE SetAll(_, _, _)
SetAll(d, nodes, h) ==
    IF nodes = <<>> THEN d
    ELSE SetAll(DictSet(d, Head(nodes), h), Tail(nodes), h)

\* One pass of "for git_log in git_logs" (lines 95-103).
GitLogStep ==
    /\ pc = "git_logs"
    /\ idx <= Len(git_logs)
    /\ LET git_log == git_logs[idx]
           date == parse(git_log.date)
           key == <<date, strip(git_log.desc)>>
       IN hg_to_git' = IF key \notin DOMAIN key_to_hg
                       THEN hg_to_git
                       ELSE SetAll(hg_to_git, key_to_hg[key], PyStr(strip(git_log.node)))
    /\ idx' = idx + 1
    /\ UNCHANGED <<pc, key_to_hg, hg_dates, hg_revnum_to_hg_node, sorted_nodes>>
    /\ UNCHANGED <<inputVars, callVars, textVars, userVars, fillVars>>

\* The least string of a non-empty set
MinStr(S) == CHOOSE a \in S : \A b \in S : ~StrLess(b, a)

RECURSIVE sorted(_)
\* sorted(S) of a set of strings
sorted(S) == IF S = {} THEN <<>>
             ELSE LET m == MinStr(S) IN <<m>> \o sorted(S \ {m})

\* self.sorted_nodes = sorted(self.hg_to_git) (line 105); the index is built.
SortNodes ==
    /\ pc = "git_logs"
    /\ idx > Len(git_logs)
    /\ sorted_nodes' = sorted(DOMAIN hg_to_git)
    /\ pc' = "ready"
    /\ idx' = 0
    /\ UNCHANGED <<key_to_hg, hg_to_git, hg_dates, hg_revnum_to_hg_node>>
    /\ UNCHANGED <<inputVars, callVars, textVars, userVars, fillVars>>

----------------------------------------------------------------------------
(* BbToGh.find_hg_node, BbToGh.hgnode_to_githash                           *)

RECURSIVE bisect_right(_, _, _, _)
\* bisect.bisect_right(a, x, lo, hi): the place after the entries equal to x
bisect_right(a, x, lo, hi) ==
    IF lo < hi
    THEN LET mid == (lo + hi) \div 2
         IN IF StrLess(x, a[mid + 1]) THEN bisect_right(a, x, lo, mid)
                                      ELSE bisect_right(a, x, mid + 1, hi)
    ELSE lo

RECURSIVE bisect_left(_, _, _, _)
\* bisect.bisect_left(a, x, lo, hi), lo and hi counted from 0
bisect_left(a, x, lo, hi) ==
    IF lo < hi
    THEN LET mid == (lo + hi) \div 2
         IN IF StrLess(a[mid + 1], x) THEN bisect_left(a, x, mid + 1, hi)
                                      ELSE bisect_left(a, x, lo, mid)
    ELSE lo

\* find_hg_node(hg_node) on the sorted list nodes: a Python value
find_hg_node(nodes, hg_node) ==
    LET i == bisect_left(nodes, hg_node, 0, Len(nodes))
    IN IF i = Len(nodes) THEN PyNone
       ELSE IF startswith(nodes[i + 1], hg_node) THEN PyStr(nodes[i + 1])
       ELSE PyNone

\* What a method returns: that it raised KeyError or its value, and
\* self.hg_to_git when it is over.
Raise(d) == [raised |-> TRUE, value |-> PyNone, hg_to_git |-> d]
Return(d, val) == [raised |-> FALSE, value |-> val, hg_to_git |-> d]

\* lines 127-134: git_hash = self.hg_to_git[full_node] and what follows, on
\* the dict d. full_node is a node of the index, or None.
LookupGitHash(d, full_node) ==
    IF full_node.t = "str" /\ full_node.v \in DOMAIN d
    THEN Return(d, d[full_node.v])
    ELSE Raise(d)

\* A resolve that enters a reference it does not know into the dict, mapped
\* to None, as a dict with a default would.
hgnode_to_githash_on_demand(d, hg_node) ==
    LET full_node == find_hg_node(sorted_nodes, hg_node)
    IN IF full_node = PyNone THEN Return(DictSet(d, hg_node, PyNone), PyNone)
       ELSE LookupGitHash(d, full_node)

\* hgnode_to_githash(hg_node) with self.hg_to_git = d
hgnode_to_githash(d, hg_node) ==
    IF hg_node = "tip" THEN Return(d, PyNone)
    ELSE LET full_node == find_hg_node(sorted_nodes, hg_node)
         IN IF full_node = PyNone
            THEN IF isdigit(hg_node)
                 THEN IF int(hg_node) \in DOMAIN hg_revnum_to_hg_node
                      THEN LET node2 == hg_revnum_to_hg_node[int(hg_node)]
                               full2 == find_hg_node(sorted_nodes, node2)
                           IN IF full2 = PyNone THEN Return(d, PyNone)
                              ELSE LookupGitHash(d, full2)
                      ELSE Raise(d)
                 ELSE LookupGitHash(d, full_node)
            ELSE LookupGitHash(d, full_node)

\* No direct call of hgnode_to_githash was made yet.
NoCall == [raised |-> FALSE, value |-> PyNone]

\* The references tried on the index.
Refs == {"tip", "a", "a1", "a1b", "a1b2", "1", "12", "b", "0", "1 ", "7", "zz", "c0ffee"}

\* A call n2h.hgnode_to_githash(r) on the built index.
Resolve(r) ==
    /\ pc = "ready"
    /\ ref' = r
    /\ LET out == hgnode_to_githash(hg_to_git, r)
       IN /\ result' = [raised |-> out.raised, value |-> out.value]
          /\ hg_to_git' = out.hg_to_git
    /\ UNCHANGED <<pc, idx, key_to_hg, hg_dates, hg_revnum_to_hg_node, sorted_nodes>>
    /\ UNCHANGED <<inputVars, textVars, userVars, fillVars>>

----------------------------------------------------------------------------
(* Regular expressions of the rules.  MatchAt(rule, s, i) is re.match of   *)
(* the rule's pattern at place i of s: [end |-> the place after the match, *)
(* 0 when there is none, groups |-> its groups].                           *)

NoMatch == [end |-> 0, groups |-> <<"", "">>]
Match(e, g1, g2) == [end |-> e, groups |-> <<g1, g2>>]

\* The literal pat matches at place i of s, a '.' of pat matching any
\* character but a newline: the base urls go into the patterns unescaped.
LitAt(s, i, pat) ==
    /\ i + Len(pat) - 1 <= Len(s)
    /\ \A k \in 1..Len(pat) :
          IF Ch(pat, k) = "." THEN Ch(s, i + k - 1) # "\n"
          ELSE Ch(s, i + k - 1) = Ch(pat, k)

\* [\w\d/?=#.,_-]
SrcRestChars == WordChars \cup {"/", "?", "=", "#", ".", ",", "-"}
\* [\w\d.,_-]
IssueRestChars == WordChars \cup {".", ",", "-"}
\* [a-zA-Z0-9_-]
UserChars == AlNum \cup {"_", "-"}

\* r'<<(cset|changeset) ([^>]+)>>'
MatchCsetMarker(s, i) ==
    LET marker == IF StartsAt(s, i + 2, "cset ") THEN "cset"
                  ELSE IF StartsAt(s, i + 2, "changeset ") THEN "changeset"
                  ELSE ""
        j == i + 2 + Len(marker) + 1
        e == RunEndNot(s, j, {">"})
    IN IF StartsAt(s, i, "<<") /\ marker # "" /\ e > j /\ StartsAt(s, e, ">>")
       THEN Match(e + 2, marker, SubSeq(s, j, e - 1))
       ELSE NoMatch

\* base_url + r'([0-9a-f]+)(/?)' with base_url = bb_url + '/commits/'
MatchCsetLink(s, i) ==
    LET j == i + Len(bb_url \o "/commits/")
        e == RunEnd(s, j, HexChars)
        slash == IF StartsAt(s, e, "/") THEN "/" ELSE ""
    IN IF LitAt(s, i, bb_url \o "/commits/") /\ e > j
       THEN Match(e + Len(slash), SubSeq(s, j, e - 1), slash)
       ELSE NoMatch

\* r'\b': a word character on one side of the gap after place k of s only
Boundary(s, k) ==
    (k >= 1 /\ k <= Len(s) /\ Ch(s, k) \in WordChars)
        # (k + 1 <= Len(s) /\ Ch(s, k + 1) \in WordChars)

\* r'\b(pull request #(\d+))\b'
MatchPrMarker(s, i) ==
    LET j == i + Len("pull request #")
        e == RunEnd(s, j, Digits)
    IN IF /\ Boundary(s, i - 1)
          /\ StartsAt(s, i, "pull request #")
          /\ e > j
          /\ Boundary(s, e - 1)
       THEN Match(e, SubSeq(s, i, e - 1), SubSeq(s, j, e - 1))
       ELSE NoMatch

\* base_url + r'([^/]+)(/[\w\d/?=#.,_-]*)?' with base_url = bb_url + '/src/'
MatchSrcLink(s, i) ==
    LET j == i + Len(bb_url \o "/src/")
        e == RunEndNot(s, j, {"/"})
        e2 == IF StartsAt(s, e, "/") THEN RunEnd(s, e + 1, SrcRestChars) ELSE e
    IN IF LitAt(s, i, bb_url \o "/src/") /\ e > j
       THEN Match(e2, SubSeq(s, j, e - 1), SubSeq(s, e, e2 - 1))
       ELSE NoMatch

\* base_url + r'(\d+)(/[\w\d.,_-]*)?' with base_url = bb_url + '/issue/'
MatchIssueLink(s, i) ==
    LET j == i + Len(bb_url \o "/issue/")
        e == RunEnd(s, j, Digits)
        e2 == IF StartsAt(s, e, "/") THEN RunEnd(s, e + 1, IssueRestChars) ELSE e
    IN IF LitAt(s, i, bb_url \o "/issue/") /\ e > j
       THEN Match(e2, SubSeq(s, j, e - 1), SubSeq(s, e, e2 - 1))
       ELSE NoMatch

\* r'@([a-zA-Z][a-zA-Z0-9_-]+)\b' at place at of s, after the prefix pre:
\* the name is the longest one that ends at a word boundary.
MatchUserAfter(s, at, pre) ==
    LET e == RunEnd(s, at + 2, UserChars)
        ends == {k \in (at + 2)..(e - 1) : Boundary(s, k)}
        last == CHOOSE k \in ends : \A k2 \in ends : k2 <= k
    IN IF /\ StartsAt(s, at, "@")
          /\ at + 1 <= Len(s) /\ Ch(s, at + 1) \in Alpha
          /\ ends # {}
       THEN Match(last + 1, pre, SubSeq(s, at + 1, last))
       ELSE NoMatch

\* r'(^|[^a-zA-Z0-9])@([a-zA-Z][a-zA-Z0-9_-]+)\b'
MatchUser(s, i) ==
    LET atStart == IF i = 1 THEN MatchUserAfter(s, 1, "") ELSE NoMatch
    IN IF atStart.end > 0 THEN atStart
       ELSE IF i <= Len(s) /\ Ch(s, i) \notin AlNum
            THEN MatchUserAfter(s, i + 1, Ch(s, i))
            ELSE NoMatch

MatchAt(rule, s, i) ==
    CASE rule = "convert_cset_marker" -> MatchCsetMarker(s, i)
      [] rule = "convert_bb_cset_link" -> MatchCsetLink(s, i)
      [] rule = "convert_bb_pr_marker" -> MatchPrMarker(s, i)
      [] rule = "convert_bb_src_link" -> MatchSrcLink(s, i)
      [] rule = "convert_bb_issue_link" -> MatchIssueLink(s, i)
      [] rule = "convert_bb_user_link" -> MatchUser(s, i)

\* re.search(pattern of the rule, s, i): the first place >= i where the
\* pattern matches, 0 if none
search(rule, s, i) ==
    LET P == {k \in i..Len(s) : MatchAt(rule, s, k).end > 0}
    IN IF P = {} THEN 0 ELSE MinOf(P)

RECURSIVE FindAllFrom(_, _, _)
FindAllFrom(rule, s, i) ==
    LET k == search(rule, s, i)
    IN IF k = 0 THEN <<>>
       ELSE <<MatchAt(rule, s, k).groups>> \o FindAllFrom(rule, s, MatchAt(rule, s, k).end)

\* re.findall(pattern of the rule, s): the groups of the matches, left to
\* right, no two overlapping
findall(rule, s) == FindAllFrom(rule, s, 1)

----------------------------------------------------------------------------
(* The rules.  A rule that resolves commits gives [raised, content,        *)
(* hg_to_git]: whether hgnode_to_githash raised KeyError in it, the text,  *)
(* and self.hg_to_git when it is over.                                     *)

\* normalize_bb_url(content)
normalize_bb_url(c) ==
    replace(replace(replace(c, "http://www.bitbucket.org/", "https://bitbucket.org/"),
                    "http://bitbucket.org/", "https://bitbucket.org/"),
            bb_url \o "/changeset/", bb_url \o "/commits/")

\* hg_node.split(':')[1] for an hg_node that holds a ':'
SplitColon1(hg_node) ==
    LET p1 == FindChar(hg_node, 1, {":"})
        p2 == FindChar(hg_node, p1 + 1, {":"})
    IN SubSeq(hg_node, p1 + 1, p2 - 1)

Raised(d, c) == [raised |-> TRUE, content |-> c, hg_to_git |-> d]
Text(d, c) == [raised |-> FALSE, content |-> c, hg_to_git |-> d]

RECURSIVE CsetMarkerLoop(_, _, _)
\* for marker, hg_node in captures (lines 155-161)
CsetMarkerLoop(d, c, caps) ==
    IF caps = <<>> THEN Text(d, c)
    ELSE LET marker == Head(caps)[1]
             hg_node == Head(caps)[2]
             out == IF FindChar(hg_node, 1, {":"}) <= Len(hg_node)
                    THEN hgnode_to_githash(d, SplitColon1(hg_node))
                    ELSE hgnode_to_githash(d, hg_node)
         IN IF out.raised THEN Raised(out.hg_to_git, c)
            ELSE CsetMarkerLoop(out.hg_to_git,
                                replace(c, "<<" \o marker \o " " \o hg_node \o ">>",
                                        "\\<\\<cset " \o out.value.v \o "\\>\\>"),
                                Tail(caps))

\* convert_cset_marker(content)
convert_cset_marker(d, c) == CsetMarkerLoop(d, c, findall("convert_cset_marker", c))

RECURSIVE CsetLinkLoop(_, _, _)
\* for hg_node, rest_of_url in url_pairs (lines 178-183)
CsetLinkLoop(d, c, pairs) ==
    IF pairs = <<>> THEN Text(d, c)
    ELSE LET hg_node == Head(pairs)[1]
             rest_of_url == Head(pairs)[2]
             out == hgnode_to_githash(d, hg_node)
             from_ == bb_url \o "/commits/" \o hg_node \o rest_of_url
             to_ == " " \o out.value.v \o " "
         IN IF out.raised THEN Raised(out.hg_to_git, c)
            ELSE CsetLinkLoop(out.hg_to_git, replace(c, from_, to_), Tail(pairs))

\* convert_bb_cset_link(content)
convert_bb_cset_link(d, c) == CsetLinkLoop(d, c, findall("convert_bb_cset_link", c))

RECURSIVE PrMarkerLoop(_, _)
\* for replacer, pr_number in captures (lines 192-194)
PrMarkerLoop(c, caps) ==
    IF caps = <<>> THEN c
    ELSE PrMarkerLoop(replace(c, Head(caps)[1],
                              bb_url \o "/pull-request/" \o Head(caps)[2]),
                      Tail(caps))

\* convert_bb_pr_marker(content)
convert_bb_pr_marker(c) == PrMarkerLoop(c, findall("convert_bb_pr_marker", c))

\* urlparse.urlparse(url) of a url with no scheme: its path and fragment
urlparse(url) ==
    LET delim == FindChar(url, 3, {"/", "?", "#"})
        url1 == IF startswith(url, "//") THEN SubSeq(url, delim, Len(url)) ELSE url
        h == FindChar(url1, 1, {"#"})
        url2 == SubSeq(url1, 1, h - 1)
        q == FindChar(url2, 1, {"?"})
    IN [path |-> SubSeq(url2, 1, q - 1), fragment |-> SubSeq(url1, h + 1, Len(url1))]

RECURSIVE SrcLinkLoop(_, _, _)
\* for hg_node, rest_of_url in url_pairs (lines 204-215)
SrcLinkLoop(d, c, pairs) ==
    IF pairs = <<>> THEN Text(d, c)
    ELSE LET hg_node == Head(pairs)[1]
             rest_of_url == Head(pairs)[2]
             parsed_url == urlparse(rest_of_url)
             frag == parsed_url.fragment
             line == IF StartsAt(frag, 1, "cl-") /\ RunEnd(frag, 4, Digits) > 4
                     THEN "#L" \o SubSeq(frag, 4, RunEnd(frag, 4, Digits) - 1)
                     ELSE ""
             out == hgnode_to_githash(d, hg_node)
             git_hash == IF out.value = PyNone THEN "master" ELSE out.value.v
             from_ == bb_url \o "/src/" \o hg_node \o rest_of_url
             to_ == gh_url \o "/blob/" \o git_hash \o parsed_url.path \o line
         IN IF out.raised THEN Raised(out.hg_to_git, c)
            ELSE SrcLinkLoop(out.hg_to_git, replace(c, from_, to_), Tail(pairs))

\* convert_bb_src_link(content)
convert_bb_src_link(d, c) == SrcLinkLoop(d, c, findall("convert_bb_src_link", c))

RECURSIVE IssueLinkLoop(_, _)
\* for issue_id, rest_of_url in issue_pairs (lines 225-229)
IssueLinkLoop(c, pairs) ==
    IF pairs = <<>> THEN c
    ELSE LET issue_id == Head(pairs)[1]
             rest_of_url == Head(pairs)[2]
             from_ == bb_url \o "/issue/" \o issue_id \o rest_of_url
             to_ == "#" \o issue_id
         IN IssueLinkLoop(replace(c, from_, to_), Tail(pairs))

\* convert_bb_issue_link(content)
convert_bb_issue_link(c) == IssueLinkLoop(c, findall("convert_bb_issue_link", c))

RECURSIVE SubUserFrom(_, _, _)
SubUserFrom(s, i, link) ==
    LET k == search("convert_bb_user_link", s, i)
        m == MatchUser(s, k)
    IN IF k = 0 THEN SubSeq(s, i, Len(s))
       ELSE SubSeq(s, i, k - 1) \o m.groups[1] \o link \o SubUserFrom(s, m.end, link)

\* re.sub(pattern, r'\1[%s](%s)' % (name, base_url + user), content), line 243
sub_user(c, nm, user) ==
    SubUserFrom(c, 1, "[" \o nm.v \o "](" \o "https://bitbucket.org/" \o user \o ")")

----------------------------------------------------------------------------
(* get_bb_username and its memoize wrapper                                 *)

Skipped == {"name", "names", "class", "import", "property", "ubuntu", "wrap",
            "github", "for", "enumerate", "item", "itemize", "type", "title",
            "empty", "replace", "gmail", "id", "href", "app", "echo"}

RECURSIVE JoinDash(_)
\* '-'.join(parts)
JoinDash(parts) ==
    IF parts = <<>> THEN ""
    ELSE IF Len(parts) = 1 THEN parts[1]
    ELSE parts[1] \o "-" \o JoinDash(Tail(parts))

\* memoize.make_key(user): the positional arguments, then the keyword ones
make_key(user) == JoinDash(<<user>>) \o JoinDash(<<>>)

\* A cache test that takes a cached None or False for a missing entry.
InCache_truthy(c, key) == key \in DOMAIN c /\ c[key].t = "str"

\* "key in self.cache" (line 49)
InCache(c, key) == key \in DOMAIN c

\* What the request of lines 66-72 may give for user: None (not status 200)
\* or the display name the directory holds.
Responses(user) == {PyNone, PyStr("Mr " \o user)}

\* get_bb_username(user), not memoized, makes a request
Requests(user) == user \notin Skipped

\* What the memoized get_bb_username(user) may return
Outcomes(user) ==
    IF InCache(cache, make_key(user)) THEN {cache[make_key(user)]}
    ELSE IF Requests(user) THEN Responses(user)
    ELSE {PyFalse}

----------------------------------------------------------------------------
(* convert_all, a rule at a time                                           *)

\* The rules in the order the design lists them.
RuleOrder_as_listed ==
    << "normalize_bb_url", "convert_cset_marker", "convert_bb_cset_link",
       "convert_bb_pr_marker", "convert_bb_src_link", "convert_bb_issue_link",
       "convert_bb_user_link" >>

\* The rules in the order convert_all applies them (lines 137-143).
RuleOrder == << "normalize_bb_url", "convert_cset_marker", "convert_bb_cset_link",
                "convert_bb_issue_link", "convert_bb_src_link",
                "convert_bb_user_link", "convert_bb_pr_marker" >>

\* What follows rule in convert_all
After(rule) ==
    LET k == CHOOSE a \in 1..Len(RuleOrder) : RuleOrder[a] = rule
    IN IF k = Len(RuleOrder) THEN "done" ELSE RuleOrder[k + 1]

\* n2h.convert_all(t) is called on a text of the issues.
StartConvert(t) ==
    /\ pc = "ready"
    /\ text' = t
    /\ content' = t
    /\ prev' = t
    /\ pc' = RuleOrder[1]
    /\ ref' = ""
    /\ result' = NoCall
    /\ UNCHANGED <<idx, captures, name, indexVars, inputVars, userVars, fillVars>>

\* convert_all returns content (line 144): its caller stores it and goes on.
ConvertReturn ==
    /\ pc = "done"
    /\ pc' = "ready"
    /\ text' = ""
    /\ content' = ""
    /\ prev' = ""
    /\ captures' = <<>>
    /\ name' = PyNone
    /\ UNCHANGED <<idx, indexVars, inputVars, callVars, userVars, fillVars>>

\* A rule that resolves no commit gave text c.
PureRule(c) ==
    /\ prev' = content
    /\ content' = c
    /\ pc' = After(pc)
    /\ UNCHANGED <<idx, text, captures, name>>
    /\ UNCHANGED <<indexVars, inputVars, callVars, userVars, fillVars>>

\* A rule that resolves commits gave out.
IndexRule(out) ==
    /\ prev' = content
    /\ content' = out.content
    /\ hg_to_git' = out.hg_to_git
    /\ pc' = IF out.raised THEN "raised" ELSE After(pc)
    /\ UNCHANGED <<idx, text, captures, name>>
    /\ UNCHANGED <<key_to_hg, hg_dates, hg_revnum_to_hg_node, sorted_nodes>>
    /\ UNCHANGED <<inputVars, callVars, userVars, fillVars>>

NormalizeBbUrl ==
    /\ pc = "normalize_bb_url"
    /\ PureRule(normalize_bb_url(content))

ConvertCsetMarker ==
    /\ pc = "convert_cset_marker"
    /\ IndexRule(convert_cset_marker(hg_to_git, content))

ConvertBbCsetLink ==
    /\ pc = "convert_bb_cset_link"
    /\ IndexRule(convert_bb_cset_link(hg_to_git, content))

ConvertBbIssueLink ==
    /\ pc = "convert_bb_issue_link"
    /\ PureRule(convert_bb_issue_link(content))

ConvertBbSrcLink ==
    /\ pc = "convert_bb_src_link"
    /\ IndexRule(convert_bb_src_link(hg_to_git, content))

ConvertBbPrMarker ==
    /\ pc = "convert_bb_pr_marker"
    /\ PureRule(convert_bb_pr_marker(content))

\* convert_bb_user_link up to the loop: re.findall(pattern, content) (line 240)
UserLinkStart ==
    /\ pc = "convert_bb_user_link"
    /\ prev' = content
    /\ captures' = findall("convert_bb_user_link", content)
    /\ idx' = 1
    /\ pc' = "user_loop"
    /\ UNCHANGED <<text, content, name>>
    /\ UNCHANGED <<indexVars, inputVars, callVars, userVars, fillVars>>

\* One pass of "for prefix, user in re.findall(...)" (lines 240-244).
UserLoopStep ==
    /\ pc = "user_loop"
    /\ idx <= Len(captures)
    /\ LET user == captures[idx][2]
           key == make_key(user)
       IN \E res \in Outcomes(user) :
            /\ name' = res
            /\ cache' = IF InCache(cache, key) THEN cache ELSE DictSet(cache, key, res)
            /\ lookups' = IF ~InCache(cache, key) /\ Requests(user)
                          THEN DictSet(lookups, user,
                                       Append(IF user \in DOMAIN lookups
                                              THEN lookups[user] ELSE <<>>, res))
                          ELSE lookups
            /\ content' = IF res # PyNone THEN sub_user(content, res, user) ELSE content
    /\ idx' = idx + 1
    /\ UNCHANGED <<pc, text, prev, captures>>
    /\ UNCHANGED <<indexVars, inputVars, callVars, fillVars>>

\* The loop of convert_bb_user_link is over: return content.
UserLoopEnd ==
    /\ pc = "user_loop"
    /\ idx > Len(captures)
    /\ pc' = After("convert_bb_user_link")
    /\ idx' = 0
    /\ UNCHANGED <<text, content, prev, captures, name>>
    /\ UNCHANGED <<indexVars, inputVars, callVars, userVars, fillVars>>

----------------------------------------------------------------------------
(* insert_missing_issue                                                    *)

\* The dummy issue of lines 263-275 (its dates are the time of the call).
Dummy(id) == [id |-> id, status |-> "invalid", title |-> "(deleted)",
              content |-> "(deleted)\r\n", comment_count |-> 0, local_id |-> id,
              comments |-> <<>>]

\* list.insert(i, x), i counted from 0 and at most len(list)
insert(list, i, x) == SubSeq(list, 1, i) \o <<x>> \o SubSeq(list, i + 1, Len(list))

\* "for idx in range(len(issues))" begins: range() is built once.
FillStart ==
    /\ pc = "insert_missing_issue"
    /\ frange' = Len(issues)
    /\ idx' = 0
    /\ pc' = "fill_loop"
    /\ UNCHANGED <<issues, indexVars, inputVars, callVars, textVars, userVars>>

\* One pass of the for loop (lines 260-275).
FillStep ==
    /\ pc = "fill_loop"
    /\ idx < frange
    /\ issues' = IF issues[idx + 1].id # idx + 1
                 THEN insert(issues, idx, Dummy(idx + 1))
                 ELSE issues
    /\ idx' = idx + 1
    /\ UNCHANGED <<pc, frange, indexVars, inputVars, callVars, textVars, userVars>>

\* The for loop ended and nothing raised RetryException: else: break.
FillEnd ==
    /\ pc = "fill_loop"
    /\ idx = frange
    /\ pc' = "fill_done"
    /\ UNCHANGED <<idx, issues, frange, indexVars, inputVars, callVars, textVars, userVars>>

----------------------------------------------------------------------------
(* The index specification: any logs, then any calls of hgnode_to_githash. *)

MaxHgLog == 2
MaxGitLog == 2

HgNodes == {"a1", "a1b", "12"}
HgRawKeys == {<<"2013-01-02 10:00:00", "fix">>,
              <<"2013-01-03T10:00:00", " fix\n">>}
GitRawKeys == {<<"2013-01-02T10:00:00", "fix ">>,
               <<"2013-01-03 10:00:00", "fix">>,
               <<"2013-01-03 10:00:00", "add">>}

\* The hg logs: each changeset once, its revnum its place in the log.
HgLogs ==
    UNION { { log \in [1..n -> [node : HgNodes, date : {k[1] : k \in HgRawKeys},
                                desc : {k[2] : k \in HgRawKeys}, revnum : 0..(n - 1)]] :
                /\ \A a \in 1..n : /\ <<log[a].date, log[a].desc>> \in HgRawKeys
                                   /\ log[a].revnum = a - 1
                /\ \A a, b \in 1..n : a # b => log[a].node # log[b].node }
            : n \in 1..MaxHgLog }

\* The git hash of the record at place a of the git log.
GitNode(a) == "c" \o Ch("123456789", a) \o "\n"

GitLogs ==
    UNION { { log \in [1..n -> [node : {GitNode(a) : a \in 1..n},
                                date : {k[1] : k \in GitRawKeys},
                                desc : {k[2] : k \in GitRawKeys}]] :
                \A a \in 1..n : /\ <<log[a].date, log[a].desc>> \in GitRawKeys
                                /\ log[a].node = GitNode(a) }
            : n \in 0..MaxGitLog }

\* BbToGh.__init__ up to line 82, and the rest of the program not started.
Start(hg, git, texts) ==
    /\ hg_logs = hg
    /\ git_logs = git
    /\ corpus = texts
    /\ issues_in = <<>>
    /\ pc = "hg_logs"
    /\ idx = 1
    /\ key_to_hg = <<>>
    /\ hg_to_git = <<>>
    /\ hg_dates = <<>>
    /\ hg_revnum_to_hg_node = <<>>
    /\ sorted_nodes = <<>>
    /\ ref = ""
    /\ result = NoCall
    /\ text = ""
    /\ content = ""
    /\ prev = ""
    /\ captures = <<>>
    /\ name = PyNone
    /\ cache = <<>>
    /\ lookups = <<>>
    /\ issues = <<>>
    /\ frange = 0

Init == \E hg \in HgLogs, git \in GitLogs : Start(hg, git, {})

Next ==
    \/ HgLogStep
    \/ HgLogEnd
    \/ GitLogStep
    \/ SortNodes
    \/ \E r \in Refs : Resolve(r)

Spec == Init /\ [][Next]_vars

----------------------------------------------------------------------------
(* The rewriting specifications: a fixed pair of logs, then convert_all on *)
(* the texts of a corpus, any number of times and in any order.            *)

\* a1 is commit c1 of the git log, a1b has no git commit.
RewriteHgLog == << [node |-> "a1", date |-> "2013-01-02 10:00:00", desc |-> "fix", revnum |-> 0],
                   [node |-> "a1b", date |-> "2013-01-03 10:00:00", desc |-> "add", revnum |-> 1] >>
RewriteGitLog == << [node |-> "c1\n", date |-> "2013-01-02T10:00:00", desc |-> "fix "] >>

RECURSIVE Concats(_, _)
\* The texts made of 1 to n of the items
Concats(items, n) ==
    IF n = 0 THEN {}
    ELSE LET shorter == Concats(items, n - 1)
         IN items \cup {a \o b : a \in items, b \in shorter}

MaxItems == 2
MaxWords == 3

LinkItems == { "http://www.bitbucket.org/u/r/changeset/a1/",
               "<<cset a1>>",
               "<<changeset 1:ff>>",
               bb_url \o "/commits/a1",
               bb_url \o "/commits/a1b",
               bb_url \o "/issue/6",
               bb_url \o "/issue/63/some-title",
               bb_url \o "/src/0/f.py?at=default#cl-3",
               "pull request ",
               " @al " }

MentionItems == {"@al", "@bo", "@import", " "}

InitRewrite == Start(RewriteHgLog, RewriteGitLog, Concats(LinkItems, MaxItems))

InitUser == Start(RewriteHgLog, RewriteGitLog, Concats(MentionItems, MaxWords))

NextRewrite ==
    \/ HgLogStep
    \/ HgLogEnd
    \/ GitLogStep
    \/ SortNodes
    \/ \E r \in Refs : Resolve(r)
    \/ \E t \in corpus : StartConvert(t)
    \/ NormalizeBbUrl
    \/ ConvertCsetMarker
    \/ ConvertBbCsetLink
    \/ ConvertBbIssueLink
    \/ ConvertBbSrcLink
    \/ UserLinkStart
    \/ UserLoopStep
    \/ UserLoopEnd
    \/ ConvertBbPrMarker
    \/ ConvertReturn

SpecRewrite == InitRewrite /\ [][NextRewrite]_vars

SpecUser == InitUser /\ [][NextRewrite]_vars

----------------------------------------------------------------------------
(* The filling specification: insert_missing_issue on any list of issues   *)
(* whose ids increase.                                                     *)

MaxIssueId == 6

Issue(id) == [id |-> id, status |-> "open", title |-> "t", content |-> "c",
              comment_count |-> 1, local_id |-> id, comments |-> <<"c">>]

RECURSIVE Ascending(_, _)
\* The issues of the ids of set S that are at least lo, in increasing order
Ascending(S, lo) ==
    IF lo > MaxIssueId THEN <<>>
    ELSE IF lo \in S THEN <<Issue(lo)>> \o Ascending(S, lo + 1)
    ELSE Ascending(S, lo + 1)

\* main() has converted the contents and calls insert_missing_issue(issues).
InitFill ==
    /\ \E S \in SUBSET (1..MaxIssueId) : issues = Ascending(S, 1)
    /\ issues_in = issues
    /\ pc = "insert_missing_issue"
    /\ hg_logs = <<>>
    /\ git_logs = <<>>
    /\ corpus = {}
    /\ idx = 0
    /\ key_to_hg = <<>>
    /\ hg_to_git = <<>>
    /\ hg_dates = <<>>
    /\ hg_revnum_to_hg_node = <<>>
    /\ sorted_nodes = <<>>
    /\ ref = ""
    /\ result = NoCall
    /\ text = ""
    /\ content = ""
    /\ prev = ""
    /\ captures = <<>>
    /\ name = PyNone
    /\ cache = <<>>
    /\ lookups = <<>>
    /\ frange = 0

NextFill == FillStart \/ FillStep \/ FillEnd

SpecFill == InitFill /\ [][NextFill]_vars

----------------------------------------------------------------------------
(* Properties of the index.                                                *)

\* The old identifiers of the hg log
OldNodes == {strip(hg_logs[a].node) : a \in 1..Len(hg_logs)}

\* The match key of old identifier n
KeyOfNode(n) == Key(hg_logs[CHOOSE a \in 1..Len(hg_logs) : strip(hg_logs[a].node) = n])

\* The places among the first p records of the git log whose match key is k
GitPlaces(k, p) == {a \in 1..p : Key(git_logs[a]) = k}

\* The identifier of the last of the first p git records with match key k,
\* None when there is none
LastNew(k, p) ==
    IF GitPlaces(k, p) = {} THEN PyNone
    ELSE PyStr(strip(git_logs[CHOOSE a \in GitPlaces(k, p) :
                                  \A b \in GitPlaces(k, p) : b <= a].node))

\* The git records handled so far
GitDone == IF pc = "git_logs" THEN idx - 1 ELSE Len(git_logs)

\* C1: hgnode_to_githash never raises: whatever the index and the reference,
\* it returns a new identifier or None; a reference that prefix-matches no
\* old identifier and is no known revision number yields None.
C1_ResolveNeverRaises ==
    (pc = "ready" /\ ref # "") =>
        /\ ~result.raised
        /\ (find_hg_node(sorted_nodes, ref) = PyNone
               /\ ~(isdigit(ref) /\ int(ref) \in DOMAIN hg_revnum_to_hg_node))
              => result.value = PyNone

\* C4: once the git log is being read, every old identifier is mapped to the
\* identifier of the last git record read so far that has its match key
\* (None when there is none): identifiers that share a match key share their
\* value, the last record wins, and a record whose key is not in the hg log
\* changes nothing.
C4_LastNewRecordWins ==
    pc \in {"git_logs", "ready"} =>
        /\ DOMAIN hg_to_git = OldNodes
        /\ \A n \in OldNodes : hg_to_git[n] = LastNew(KeyOfNode(n), GitDone)
        /\ \A n, m \in OldNodes : KeyOfNode(n) = KeyOfNode(m) => hg_to_git[n] = hg_to_git[m]

\* C4 happens: two old identifiers share a match key that two git records
\* have, and a third git record has a key the hg log lacks.
C4_Witness ==
    /\ pc = "ready"
    /\ \E n, m \in OldNodes :
          /\ n # m
          /\ KeyOfNode(n) = KeyOfNode(m)
          /\ Cardinality(GitPlaces(KeyOfNode(n), Len(git_logs))) >= 2
          /\ hg_to_git[n].t = "str"
          /\ hg_to_git[m] = hg_to_git[n]

\* The non-empty prefixes of string n
Prefixes(n) == {SubSeq(n, 1, k) : k \in 1..Len(n)}

\* n is the only old identifier that starts with p
OnlyMatch(p, n) == \A m \in DOMAIN hg_to_git : startswith(m, p) => m = n

\* C5: on the built index, a non-empty prefix p of an old identifier n that
\* no other old identifier starts with resolves as n does: to the value
\* mapped to n.
C5_UniquePrefixResolves ==
    pc = "ready" =>
        \A n \in DOMAIN hg_to_git : \A p \in Prefixes(n) :
            OnlyMatch(p, n) =>
                /\ hgnode_to_githash(hg_to_git, p) = hgnode_to_githash(hg_to_git, n)
                /\ hgnode_to_githash(hg_to_git, p) = Return(hg_to_git, hg_to_git[n])

\* C5 happens: a proper prefix of an old identifier, unique to it, was
\* resolved to a git hash while other identifiers are in the index.
C5_Witness ==
    /\ pc = "ready"
    /\ Cardinality(DOMAIN hg_to_git) >= 2
    /\ \E n \in DOMAIN hg_to_git :
          /\ ref \in Prefixes(n) /\ ref # n
          /\ OnlyMatch(ref, n)
          /\ result = [raised |-> FALSE, value |-> hg_to_git[n]]
          /\ hg_to_git[n].t = "str"

----------------------------------------------------------------------------
(* Properties of the rewriting.                                            *)

Building == {"hg_logs", "git_logs"}

\* C9: once the index is built, no call of hgnode_to_githash and no rule of
\* convert_all changes it: the keys of hg_to_git stay the old identifiers of
\* the hg log, and hg_to_git, hg_dates, hg_revnum_to_hg_node, sorted_nodes
\* (and key_to_hg) keep their values.
C9_IndexFrozen ==
    /\ [](pc \notin Building => DOMAIN hg_to_git = OldNodes)
    /\ [][pc \notin Building => UNCHANGED indexVars]_vars

\* C9 happens: rules of convert_all resolved a known and an unknown commit.
C9_Witness ==
    \/ pc = "done" /\ text = bb_url \o "/commits/a1" /\ content = " c1 "
    \/ pc = "raised" /\ text = "<<changeset 1:ff>>"

\* convert_bb_user_link(c) with every lookup answered from the cache
RECURSIVE UserLoopCached(_, _)
UserLoopCached(c, caps) ==
    IF caps = <<>> THEN c
    ELSE LET user == Head(caps)[2]
             nm == cache[make_key(user)]
         IN UserLoopCached(IF nm # PyNone THEN sub_user(c, nm, user) ELSE c, Tail(caps))

UserLinkCached(c) == UserLoopCached(c, findall("convert_bb_user_link", c))

\* Every user mentioned in c has been looked up
KnownUsers(c) ==
    LET caps == findall("convert_bb_user_link", c)
    IN \A k \in 1..Len(caps) : make_key(caps[k][2]) \in DOMAIN cache

ShortForm(rule, s, k) ==
    LET m == MatchAt(rule, s, k)
        user == m.groups[2]
    IN CASE rule = "convert_bb_issue_link" -> "#" \o m.groups[1]
         [] rule = "convert_bb_cset_link" ->
                " " \o hgnode_to_githash(hg_to_git, m.groups[1]).value.v \o " "
         [] rule = "convert_bb_user_link" ->
                IF cache[make_key(user)].t = "str"
                THEN m.groups[1] \o "[" \o cache[make_key(user)].v \o "]("
                         \o "https://bitbucket.org/" \o user \o ")"
                ELSE SubSeq(s, k, m.end - 1)

RECURSIVE SubEachFrom(_, _, _)
SubEachFrom(rule, s, i) ==
    LET k == search(rule, s, i)
    IN IF k = 0 THEN SubSeq(s, i, Len(s))
       ELSE SubSeq(s, i, k - 1) \o ShortForm(rule, s, k)
                \o SubEachFrom(rule, s, MatchAt(rule, s, k).end)

\* s with each match of the rule replaced, where it stands, by its own short form
SubEach(rule, s) == SubEachFrom(rule, s, 1)

\* C10: commit link conversion and issue link conversion replace every
\* matched url as a whole by the short form of its own match, also when one
\* matched url is a prefix of a later one.
C10_EachLinkReplacedWhole ==
    /\ pc = "convert_bb_issue_link" => content = SubEach("convert_bb_cset_link", prev)
    /\ pc = "convert_bb_src_link" => content = SubEach("convert_bb_issue_link", prev)

\* The loop of convert_bb_user_link is over.
UserLinkOver == pc = "user_loop" /\ idx > Len(captures)

\* C7: a text whose only mentions are of skipped names comes out of
\* convert_bb_user_link as it went in, and no request is made for a skipped
\* name.
C7_SkippedMentionsUntouched ==
    /\ \A u \in Skipped : u \notin DOMAIN lookups
    /\ (UserLinkOver /\ \A k \in 1..Len(captures) : captures[k][2] \in Skipped)
          => content = prev

\* C8: convert_bb_user_link replaces each mention of a user that has a
\* display name by the link of that user and leaves the mentions of the
\* users that were not found, whatever else the text mentions.
C8_EachMentionOwnLink ==
    (UserLinkOver /\ \A k \in 1..Len(captures) : captures[k][2] \notin Skipped)
        => content = SubEach("convert_bb_user_link", prev)

\* C3: no user is requested twice, a cached user holds the answer of its one
\* request, None included, and a later mention gets that answer.
C3_LookupOncePerUser ==
    /\ \A u \in DOMAIN lookups :
          /\ Len(lookups[u]) = 1
          /\ make_key(u) \in DOMAIN cache
          /\ cache[make_key(u)] = lookups[u][1]
    /\ (pc = "user_loop" /\ idx > 1 /\ captures[idx - 1][2] \in DOMAIN lookups)
          => name = lookups[captures[idx - 1][2]][1]

\* C3 happens: a user whose request gave None was mentioned again, in a later
\* call of convert_all, and no second request was made.
C3_Witness ==
    /\ pc = "user_loop"
    /\ idx = 3
    /\ captures[1][2] = "al"
    /\ captures[2][2] = "al"
    /\ lookups["al"] = <<PyNone>>
    /\ "bo" \in DOMAIN lookups

----------------------------------------------------------------------------
(* Properties of insert_missing_issue.                                     *)

\* C2: when insert_missing_issue is over, the issue at place i has id i,
\* every issue that was not in the list is a dummy (status invalid, no
\* comments) and every issue of the list is still there.
C2_FilledContiguous ==
    pc = "fill_done" =>
        /\ \A i \in 1..Len(issues) : issues[i].id = i
        /\ \A i \in 1..Len(issues) :
              \/ \E j \in 1..Len(issues_in) : issues[i] = issues_in[j]
              \/ issues[i].status = "invalid" /\ issues[i].comments = <<>>
        /\ \A j \in 1..Len(issues_in) : \E i \in 1..Len(issues) : issues[i] = issues_in[j]

====
